---- MODULE Spec2Model ----
(***************************************************************************)
(* The inventory manager (src/backend.py, src/app.py).                     *)
(*                                                                         *)
(* Stock ledger and batch transaction processor: the Supabase tables       *)
(* "inventory" and "transactions" are the shared state; every call of      *)
(* add_item, update_stock, process_batch_transaction, update_item_details  *)
(* and delete_item is run by a session (a Streamlit script run) and is     *)
(* split into one step per store request, so that requests of different    *)
(* sessions interleave exactly where the code lets them.                   *)
(*                                                                         *)
(* The wrapper of retry_db, the pricing functions of app.py and the live   *)
(* cart shown on the customer display have a state variable and a          *)
(* specification of their own.                                             *)
(***************************************************************************)
EXTENDS Integers, Sequences, FiniteSets, TLC

(* ---------------------------- bounds ----------------------------------- *)
MaxCalls == 1      \* calls of the public functions session s1 makes
MaxLines == 2      \* lines of one cart

(* ---------------------------- input sets ------------------------------- *)
Sessions == {"s1", "s2"}
\* session s1 makes up to MaxCalls calls, one after another; session s2 makes
\* the one call whose store requests interleave with those of s1
CallLimit(p) == IF p = "s1" THEN MaxCalls ELSE 1
Names == {"A", "B"}
AddInputs ==
    { [name |-> "A", barcode |-> "",   quantity |-> 5],
      [name |-> "B", barcode |-> "b1", quantity |-> 3],
      [name |-> "A", barcode |-> "b1", quantity |-> 0] }
AdjustInputs ==
    { [change |-> -3, type |-> "SALE",    note |-> "",      payment |-> "CASH"],
      [change |-> -5, type |-> "SALE",    note |-> "promo", payment |-> "CARD"],
      [change |->  2, type |-> "RESTOCK", note |-> "",      payment |-> "MANUAL"] }
\* the lines a cashier puts in a cart: 2 units of item 1, 10 units of item 2
LineInputs == { [id |-> 1, qty |-> 2], [id |-> 2, qty |-> 10] }
BatchModes == { <<"SALE", "CARD">>, <<"RESTOCK", "MANUAL">> }

\* the smaller input sets of the specification with two concurrent sessions
ConAddInputs == { [name |-> "A", barcode |-> "b1", quantity |-> 3] }
ConAdjustInputs ==
    { [change |-> -3, type |-> "SALE",    note |-> "", payment |-> "CASH"],
      [change |->  2, type |-> "RESTOCK", note |-> "", payment |-> "MANUAL"] }
ConLineInputs == { [id |-> 1, qty |-> 2] }
ConBatchModes == { <<"SALE", "CARD">> }

(* ---------------------------- values ----------------------------------- *)
NoBarcode == "NULL"        \* SQL NULL in the barcode column
NoReceipt == <<>>          \* Python None as receipt_id
NoPayment == "NULL"        \* column left out of the inserted row
NoResult == [ok |-> FALSE, kind |-> "none", name |-> "", qty |-> 0, warn |-> FALSE,
             receipt |-> NoReceipt, errors |-> <<>>]

Abs(n) == IF n < 0 THEN -n ELSE n

VARIABLES
    inventory,      \* table "inventory": id -> [name, barcode, quantity]
    nextId,         \* next value of the serial id column of "inventory"
    transactions,   \* table "transactions": the rows in insertion order
    nextUuid,       \* number of receipt identifiers uuid4() has produced
    proc,           \* per session: the running call, its locals and results
    calls,          \* per session: number of calls started
    changes,        \* history: every quantity written, as [item_id, delta]
    logFailures,    \* history: log_transaction calls that returned False
    retry,          \* one call of a function decorated with retry_db
    pricing,        \* one evaluation of the pricing functions of app.py
    live,           \* row "live_cart_data" of table "settings" and its callers
    pos             \* the POS page of one Streamlit session and the display

\* the tables and the sessions of the stock ledger
ledgerVars == <<inventory, nextId, transactions, nextUuid, proc, calls, changes,
                logFailures>>

\* what the calls of the stock ledger leave alone
otherVars == <<retry, pricing, live, pos>>

vars == <<inventory, nextId, transactions, nextUuid, proc, calls, changes,
          logFailures, retry, pricing, live, pos>>

(* ---------------------------- pure code -------------------------------- *)
\* the empty barcode kept as it is
NormBarcodeKeepEmpty(barcode) == barcode

\* backend.py:132-133, 246-247: an empty barcode is stored as NULL
NormBarcode(barcode) == IF barcode = "" THEN NoBarcode ELSE barcode

\* backend.py:184
NewQty(current_qty, change_amount) == current_qty + change_amount

\* the test of line 186 left out
InsufficientStockOff(new_qty) == FALSE

\* backend.py:186
InsufficientStock(new_qty) == new_qty < 0

\* the signed delta logged, abs() left out
LogQuantitySigned(change_amount) == change_amount

\* backend.py:193: the quantity argument update_stock hands to log_transaction
LogQuantity(change_amount) == Abs(change_amount)

\* a SALE line that adds its quantity
BatchChangeUnsigned(transaction_type, qty) == qty

\* backend.py:214-219
BatchChange(transaction_type, qty) ==
    IF transaction_type = "RESTOCK" THEN qty
    ELSE IF transaction_type = "SALE" THEN -qty ELSE qty

\* backend.py:274-283: the row log_transaction inserts first
TxnRow(item_id, item_name, type_, quantity, note, receipt_id, payment_method) ==
    [item_id |-> item_id, item_name |-> item_name, type |-> type_,
     quantity |-> quantity, note |-> note,
     receipt_id |-> receipt_id, payment_method |-> payment_method]

\* the fallback row that drops the payment method only
FallbackRowKeepsReceipt(data) == [data EXCEPT !.payment_method = NoPayment]

\* backend.py:292-293: the fallback row, without the two newer columns
FallbackRow(data) ==
    [data EXCEPT !.receipt_id = NoReceipt, !.payment_method = NoPayment]

\* the message without the item name
InsufficientMsgNoName(item_name) == [NoResult EXCEPT !.kind = "InsufficientStock"]

\* backend.py:187
InsufficientMsg(item_name) ==
    [NoResult EXCEPT !.kind = "InsufficientStock", !.name = item_name]

\* the message without the log warning
UpdatedMsgNoWarn(new_qty, log_success) ==
    [NoResult EXCEPT !.ok = TRUE, !.kind = "StockUpdated", !.qty = new_qty]

\* backend.py:195-199
UpdatedMsg(new_qty, log_success) ==
    [NoResult EXCEPT !.ok = TRUE, !.kind = "StockUpdated", !.qty = new_qty,
                     !.warn = ~log_success]

\* backend.py:181
NotFoundMsg == [NoResult EXCEPT !.kind = "ItemNotFound"]

\* backend.py:172, 201: "return False, str(e)"
ExceptionMsg == [NoResult EXCEPT !.kind = "Exception"]

\* backend.py:172, 270: str(e) when the store has rejected a row that breaks
\* a unique constraint
DuplicateKeyMsg == [ExceptionMsg EXCEPT !.name = "duplicate key"]

\* backend.py:232: one entry of errors
LineError(item_name, msg) == [name |-> item_name, reason |-> msg.kind]

\* the failure that reports the first failing line only
BatchResultFirstOnly(errors, receipt_id) ==
    IF errors # <<>>
    THEN [NoResult EXCEPT !.kind = "SomeItemsFailed", !.errors = <<Head(errors)>>]
    ELSE [NoResult EXCEPT !.ok = TRUE, !.kind = "Receipt", !.receipt = receipt_id]

\* backend.py:234-237
BatchResult(errors, receipt_id) ==
    IF errors # <<>>
    THEN [NoResult EXCEPT !.kind = "SomeItemsFailed", !.errors = errors]
    ELSE [NoResult EXCEPT !.ok = TRUE, !.kind = "Receipt", !.receipt = receipt_id]

(* ---------------------------- retry_db --------------------------------- *)
\* backend.py:36 and every "@retry_db(max_retries=3)"
MaxRetries == 3
\* backend.py:36: the default delay, which no decorated function overrides
Delay == 1

\* The decorator is applied to a function and a limit.  "raising" is a
\* function that lets the exception of a store fault reach the wrapper;
\* "update_stock" is the decorated function of backend.py:174-201.
RetryLimits == 1..MaxRetries
RetryFuncs == {"raising", "update_stock"}
\* whether the store is at fault during the k-th invocation of the function
FaultPlans == [1..MaxRetries -> BOOLEAN]

\* What one invocation of func does to the wrapper: it returns a value or
\* raises.  update_stock runs in its own try/except (backend.py:176, 200-201)
\* and turns every exception into the returned pair (False, str(e)).
FuncOutcome(func, fault) ==
    IF func = "update_stock"
    THEN [raises |-> FALSE,
          value |-> IF fault THEN ExceptionMsg.kind ELSE UpdatedMsg(0, TRUE).kind]
    ELSE [raises |-> fault, value |-> IF fault THEN "none" ELSE "Value"]

\* the test that takes the attempt after the last for the last
IsLastAttemptOffByOne(i, max_retries) == i = max_retries

\* backend.py:44
IsLastAttempt(i, max_retries) == i = max_retries - 1

\* backend.py:47: the pause before the next attempt
Backoff(i) == Delay * (i + 1)

NoRetry == [func |-> "none", max_retries |-> 0, faults |-> <<>>, pc |-> "idle",
            i |-> 0, invoked |-> 0, slept |-> 0, result |-> "none"]

\* a call of the wrapper (backend.py:39) is about to enter its loop
RetryInputs ==
    { [NoRetry EXCEPT !.func = f, !.max_retries = m, !.faults = plan, !.pc = "loop"] :
        f \in RetryFuncs, m \in RetryLimits, plan \in FaultPlans }

\* backend.py:40-46: one pass of the loop up to the return, the raise or the
\* pause; once range(max_retries) is used up the wrapper returns None
RD_Call ==
    /\ retry.pc = "loop"
    /\ retry' =
         IF retry.i >= retry.max_retries
         THEN [retry EXCEPT !.pc = "returned", !.result = "None"]
         ELSE LET out == FuncOutcome(retry.func, retry.faults[retry.i + 1])
                  now == [retry EXCEPT !.invoked = @ + 1]
              IN  IF ~out.raises
                  THEN [now EXCEPT !.pc = "returned", !.result = out.value]
                  ELSE IF IsLastAttempt(retry.i, retry.max_retries)
                       THEN [now EXCEPT !.pc = "raised"]
                       ELSE [now EXCEPT !.pc = "sleep"]
    /\ UNCHANGED <<ledgerVars, pricing, live, pos>>

\* backend.py:47 and the next value of range(max_retries)
RD_Sleep ==
    /\ retry.pc = "sleep"
    /\ retry' = [retry EXCEPT !.pc = "loop", !.slept = @ + Backoff(retry.i),
                              !.i = @ + 1]
    /\ UNCHANGED <<ledgerVars, pricing, live, pos>>

(* ---------------------------- pricing (app.py) ------------------------- *)
\* Prices and totals are Python floats; the model computes them exactly, as
\* fractions <<numerator, denominator>> with a positive denominator.
RECURSIVE Gcd(_, _)
Gcd(a, b) == IF b = 0 THEN a ELSE Gcd(b, a % b)
\* the fraction n/d in lowest terms
Rat(n, d) == LET g == Gcd(Abs(n), d) IN <<n \div g, d \div g>>
RatOfInt(n) == <<n, 1>>
RatMul(a, b) == Rat(a[1] * b[1], a[2] * b[2])
RatDiv(a, b) == Rat(a[1] * b[2], a[2] * b[1])
RatAdd(a, b) == Rat(a[1] * b[2] + b[1] * a[2], a[2] * b[2])
RatSub(a, b) == Rat(a[1] * b[2] - b[1] * a[2], a[2] * b[2])
RatEq(a, b) == a[1] * b[2] = b[1] * a[2]
RatLeq(a, b) == a[1] * b[2] <= b[1] * a[2]
RatLess(a, b) == a[1] * b[2] < b[1] * a[2]
\* math.ceil
Ceil(a) == -((-a[1]) \div a[2])

MaxQty == 5        \* largest quantity of a cart line

\* app.py:440, 446, 491, 499: prices are at least 0.0, sale percents lie in 0..90
Prices == {Rat(0, 1), Rat(1, 100), Rat(999, 100), Rat(10, 1)}
SalePercents == {0, 1, 20, 50, 90}
\* app.py:780: the checkout discount lies in 0..50
DiscountPercents == {0, 10, 50}
Quantities == 0..MaxQty

\* the price with the sale left out
EffectivePriceNoSale(price, sale_percent) == price

\* app.py:23-27 get_effective_price
EffectivePrice(price, sale_percent) ==
    IF sale_percent # 0 /\ sale_percent > 0
    THEN RatMul(price, RatSub(RatOfInt(1), RatDiv(RatOfInt(sale_percent), RatOfInt(100))))
    ELSE price

\* the paid quantity rounded down
PayableQuantityFloor(qty, bogo) ==
    IF bogo /\ qty >= 2 THEN qty \div 2 ELSE qty

\* app.py:29-33 get_bogo_paid_qty
PayableQuantity(qty, bogo) ==
    IF bogo /\ qty >= 2 THEN Ceil(RatDiv(RatOfInt(qty), RatOfInt(2))) ELSE qty

\* dict.get(key, default) on a cart line
ItemGet(item, key, default) == IF key \in DOMAIN item THEN item[key] ELSE default

\* the line total that charges every unit
LineTotalFullQty(item) ==
    RatMul(EffectivePrice(item.price, ItemGet(item, "sale_percent", 0)),
           RatOfInt(item.qty))

\* app.py:38-45: item_total of one cart line
LineTotal(item) ==
    LET sale_pct == ItemGet(item, "sale_percent", 0)
        effective_price == EffectivePrice(item.price, sale_pct)
        bogo == ItemGet(item, "bogo", FALSE)
        paid_qty == PayableQuantity(item.qty, bogo)
    IN  RatMul(effective_price, RatOfInt(paid_qty))

\* app.py:36-46: the loop, from line k on, that adds up subtotal
RECURSIVE Subtotal(_, _, _)
Subtotal(cart_items, k, subtotal) ==
    IF k > Len(cart_items) THEN subtotal
    ELSE Subtotal(cart_items, k + 1, RatAdd(subtotal, LineTotal(cart_items[k])))

\* app.py:35-49 calculate_cart_totals
CartTotals(cart_items, checkout_discount_pct) ==
    LET subtotal == Subtotal(cart_items, 1, RatOfInt(0))
        discount_amount ==
            RatMul(subtotal, RatDiv(RatOfInt(checkout_discount_pct), RatOfInt(100)))
        final_total == RatSub(subtotal, discount_amount)
    IN  [subtotal |-> subtotal, discount_amount |-> discount_amount,
         final_total |-> final_total]

\* cart lines as the POS builds them (app.py:610-620, 700-711), and one line
\* without the promotion keys
PricedItems ==
    { [price |-> Rat(10, 1), qty |-> 3, sale_percent |-> 20, bogo |-> FALSE],
      [price |-> Rat(10, 1), qty |-> 5, sale_percent |-> 0, bogo |-> TRUE],
      [price |-> Rat(999, 100), qty |-> 1, sale_percent |-> 50, bogo |-> TRUE],
      [price |-> Rat(0, 1), qty |-> 2, sale_percent |-> 90, bogo |-> FALSE],
      [price |-> Rat(1, 100), qty |-> 4] }

RECURSIVE PricedCarts(_)
PricedCarts(n) ==
    IF n = 0 THEN { <<>> }
    ELSE PricedCarts(n - 1) \cup
         { Append(c, it) : c \in { d \in PricedCarts(n - 1) : Len(d) = n - 1 },
                           it \in PricedItems }

NoPricing == [fn |-> "none", price |-> Rat(0, 1), sale_percent |-> 0, qty |-> 0,
              bogo |-> FALSE, cart_items |-> <<>>, checkout_discount_pct |-> 0,
              done |-> FALSE, price_out |-> Rat(0, 1), qty_out |-> 0,
              totals |-> CartTotals(<<>>, 0)]

\* the calls of the three functions
PricingInputs ==
    { [NoPricing EXCEPT !.fn = "get_effective_price", !.price = p, !.sale_percent = s] :
        p \in Prices, s \in SalePercents }
    \cup { [NoPricing EXCEPT !.fn = "get_bogo_paid_qty", !.qty = q, !.bogo = b] :
        q \in Quantities, b \in BOOLEAN }
    \cup { [NoPricing EXCEPT !.fn = "calculate_cart_totals", !.cart_items = c,
                             !.checkout_discount_pct = d] :
        c \in PricedCarts(MaxLines), d \in DiscountPercents }

PR_EffectivePrice ==
    /\ pricing.fn = "get_effective_price" /\ ~pricing.done
    /\ pricing' = [pricing EXCEPT !.done = TRUE,
                      !.price_out = EffectivePrice(pricing.price, pricing.sale_percent)]
    /\ UNCHANGED <<ledgerVars, retry, live, pos>>

PR_BogoPaidQty ==
    /\ pricing.fn = "get_bogo_paid_qty" /\ ~pricing.done
    /\ pricing' = [pricing EXCEPT !.done = TRUE,
                      !.qty_out = PayableQuantity(pricing.qty, pricing.bogo)]
    /\ UNCHANGED <<ledgerVars, retry, live, pos>>

PR_CartTotals ==
    /\ pricing.fn = "calculate_cart_totals" /\ ~pricing.done
    /\ pricing' = [pricing EXCEPT !.done = TRUE,
                      !.totals = CartTotals(pricing.cart_items,
                                            pricing.checkout_discount_pct)]
    /\ UNCHANGED <<ledgerVars, retry, live, pos>>

(* ---------------------------- live cart -------------------------------- *)
MaxLiveOps == 3    \* calls of the live-cart functions in one behaviour

NoLiveRow == <<"NOROW">>   \* table "system_settings" has no row "live_cart_data"
NoneValue == [none |-> TRUE]   \* Python None as the result of get_live_cart
Readers == {"display"}     \* the customer display (app.py:283-284)

\* backend.py:390: the cart clear_live_cart publishes
EmptyLiveCart ==
    [items |-> <<>>, subtotal |-> RatOfInt(0), discount |-> RatOfInt(0),
     total |-> RatOfInt(0)]

\* app.py:54-64: the snapshot sync_cart builds from the session's cart
SyncCartData(cart, disc_val) ==
    LET t == CartTotals(cart, disc_val)
    IN  [items |-> cart, subtotal |-> t.subtotal, discount |-> t.discount_amount,
         total |-> t.final_total]

\* the snapshots the POS sessions publish
LiveCarts ==
    { <<>>,
      << [price |-> Rat(10, 1), qty |-> 3, sale_percent |-> 20, bogo |-> FALSE] >>,
      << [price |-> Rat(10, 1), qty |-> 3, sale_percent |-> 20, bogo |-> FALSE],
         [price |-> Rat(10, 1), qty |-> 5, sale_percent |-> 0, bogo |-> TRUE] >> }
LiveSnapshots == { SyncCartData(c, 0) : c \in LiveCarts }

\* the text without the items
JsonDumpsNoItems(cart_data) ==
    <<0>> \o <<cart_data.subtotal, cart_data.discount, cart_data.total>>

\* json.dumps (backend.py:366): the snapshot as one text, here the sequence
\* of its tokens: the number of items, the items, the three amounts
JsonDumps(cart_data) ==
    <<Len(cart_data.items)>> \o cart_data.items
        \o <<cart_data.subtotal, cart_data.discount, cart_data.total>>

\* json.loads (backend.py:383)
JsonLoads(val) ==
    LET n == val[1]
    IN  [items |-> SubSeq(val, 2, n + 1), subtotal |-> val[n + 2],
         discount |-> val[n + 3], total |-> val[n + 4]]

NoPub == [pc |-> "idle", cart_data |-> EmptyLiveCart, json_str |-> <<>>, ret |-> "none"]
NoRd == [pc |-> "idle", ret |-> NoneValue, raised |-> FALSE, start |-> 0, seen |-> 0,
         fetches |-> 0, prev_ret |-> NoneValue, prev_raised |-> FALSE, prev_seen |-> 0]
\* published is history: the snapshots whose upsert the store has executed
NoLive == [row |-> NoLiveRow, published |-> <<>>, ops |-> 0,
           pub |-> [p \in Sessions |-> NoPub], rd |-> [r \in Readers |-> NoRd]]

\* backend.py:363-366 update_live_cart up to its store request
LC_StartPublish(p, cart_data) ==
    /\ live.pub[p].pc = "idle"
    /\ live.ops < MaxLiveOps
    /\ live' = [live EXCEPT !.ops = @ + 1,
                            !.pub[p] = [NoPub EXCEPT !.pc = "upsert",
                                                     !.cart_data = cart_data,
                                                     !.json_str = JsonDumps(cart_data)]]
    /\ UNCHANGED <<ledgerVars, retry, pricing, pos>>

\* backend.py:388-392 clear_live_cart; update_live_cart never raises, so the
\* wrapper of retry_db returns what the first attempt returns
LC_StartClear(p) == LC_StartPublish(p, EmptyLiveCart)

\* backend.py:368-372: the upsert and the return
LC_Upsert(p) ==
    /\ live.pub[p].pc = "upsert"
    /\ \/ live' = [live EXCEPT !.row = live.pub[p].json_str,
                               !.published = Append(@, live.pub[p].cart_data),
                               !.pub[p].pc = "idle", !.pub[p].ret = TRUE]
       \/ live' = [live EXCEPT !.pub[p].pc = "idle", !.pub[p].ret = FALSE]
    /\ UNCHANGED <<ledgerVars, retry, pricing, pos>>

\* backend.py:374-376 get_live_cart up to its store request; the reader keeps
\* what its previous call returned
LC_StartFetch(r) ==
    /\ live.rd[r].pc = "idle"
    /\ live.ops < MaxLiveOps
    /\ live' = [live EXCEPT !.ops = @ + 1,
                            !.rd[r] = [@ EXCEPT !.pc = "select", !.ret = NoneValue,
                                                !.raised = FALSE,
                                                !.start = Len(live.published),
                                                !.prev_ret = live.rd[r].ret,
                                                !.prev_raised = live.rd[r].raised,
                                                !.prev_seen = live.rd[r].seen]]
    /\ UNCHANGED <<ledgerVars, retry, pricing, pos>>

\* what get_live_cart makes of the value it has read (backend.py:378-383);
\* single() finds no row: the request raises and line 386 returns None
LiveCartOf(row) ==
    IF row = NoLiveRow THEN NoneValue
    ELSE IF row = <<>> THEN NoneValue
    ELSE JsonLoads(row)

\* a read that also removes the row
LC_SelectAndClear(r) ==
    /\ live.rd[r].pc = "select"
    /\ live' = [live EXCEPT !.row = NoLiveRow,
                            !.rd[r] = [@ EXCEPT !.pc = "idle", !.fetches = @ + 1,
                                                !.seen = Len(live.published),
                                                !.ret = LiveCartOf(live.row)]]
    /\ UNCHANGED <<ledgerVars, retry, pricing, pos>>

\* backend.py:377-386: the select and the return
LC_Select(r) ==
    /\ live.rd[r].pc = "select"
    /\ \/ live' = [live EXCEPT !.rd[r] = [@ EXCEPT !.pc = "idle", !.fetches = @ + 1,
                                                   !.seen = Len(live.published),
                                                   !.ret = LiveCartOf(live.row)]]
       \/ live' = [live EXCEPT !.rd[r] = [@ EXCEPT !.pc = "idle", !.fetches = @ + 1,
                                                   !.seen = Len(live.published),
                                                   !.raised = TRUE,
                                                   !.ret = NoneValue]]
    /\ UNCHANGED <<ledgerVars, retry, pricing, pos>>

(* ---------------------------- POS session: values --------------------- *)
MaxPosOps == 2     \* cart edits of the cashier in one behaviour

\* app.py:700-711 (and 610-620): the cart line built from a row of the
\* inventory listing
ItemData(item_id, row, qty, note) ==
    [id |-> item_id, name |-> row.name, price |-> row.price, qty |-> qty,
     note |-> note, max_qty |-> row.quantity,
     sale_percent |-> ItemGet(row, "sale_percent", 0),
     bogo |-> ItemGet(row, "bogo", FALSE)]

NoItemData ==
    [id |-> 0, name |-> "", price |-> RatOfInt(0), qty |-> 0, note |-> "",
     max_qty |-> 0, sale_percent |-> 0, bogo |-> FALSE]

\* the lines of the cart that add_to_cart_consolidated takes for new_item
SameLine(cart, new_item) ==
    { k \in 1..Len(cart) : cart[k].id = new_item.id /\ cart[k].note = new_item.note }

\* a consolidation that overwrites the line with the new item data
AddToCartRefreshed(cart, new_item) ==
    IF SameLine(cart, new_item) # {}
    THEN LET k == CHOOSE i \in SameLine(cart, new_item) :
                      \A j \in SameLine(cart, new_item) : i <= j
         IN  [cart EXCEPT ![k] = [new_item EXCEPT !.qty = cart[k].qty + new_item.qty]]
    ELSE Append(cart, new_item)

\* app.py:585-596 add_to_cart_consolidated: the first line with the same id
\* and note gets the quantity added, otherwise the item is appended
AddToCartConsolidated(cart, new_item) ==
    IF SameLine(cart, new_item) # {}
    THEN LET k == CHOOSE i \in SameLine(cart, new_item) :
                      \A j \in SameLine(cart, new_item) : i <= j
         IN  [cart EXCEPT ![k].qty = @ + new_item.qty]
    ELSE Append(cart, new_item)

\* st.session_state of the POS page (cart, checkout_discount, _reset_discount),
\* what its last handler did, and what the customer display last fetched;
\* cart_data is the snapshot sync_cart computes from cart and
\* checkout_discount (app.py:56-63), kept up to date with them
NoPos ==
    [cart |-> <<>>, checkout_discount |-> 0, reset_discount |-> FALSE,
     cart_data |-> EmptyLiveCart,
     op |-> "none", item_data |-> NoItemData, found |-> FALSE,
     pre_cart |-> <<>>, pre_discount |-> 0,
     sync_data |-> EmptyLiveCart, sync_ret |-> "none",
     handled |-> 0, ops |-> 0, display |-> NoneValue, poll |-> "none"]

(* ---------------------------- call frames ------------------------------ *)
NoAi == [name |-> "", barcode |-> NoBarcode, quantity |-> 0, pre_inventory |-> <<>>]
NoUd == [item_id |-> 0, name |-> "", barcode |-> NoBarcode, price |-> RatOfInt(0),
         sale_percent |-> 0, bogo |-> FALSE]
NoDi == [item_id |-> 0, pre_inventory |-> <<>>, pre_transactions |-> <<>>]
NoRow == TxnRow(0, "", "", 0, "", NoReceipt, NoPayment)
NoUs == [item_id |-> 0, item_name |-> "", change |-> 0, type |-> "", note |-> "",
         receipt_id |-> NoReceipt, payment |-> NoPayment, new_qty |-> 0,
         pre_inventory |-> <<>>, pre_len |-> 0]
NoPb == [cart |-> <<>>, type |-> "", payment |-> NoPayment, receipt_id |-> NoReceipt,
         i |-> 0, errors |-> <<>>, rets |-> <<>>, pre_inventory |-> <<>>, pre_len |-> 0,
         pre_failures |-> 0]

\* a session that runs no call and has run none
IdleProc == [op |-> "none", pc |-> "idle", ai |-> NoAi, us |-> NoUs, data |-> NoRow,
             log_ret |-> "none", pb |-> NoPb, us_ret |-> NoResult, ret |-> NoResult,
             raised |-> FALSE, ud |-> NoUd, di |-> NoDi]

\* the names a caller passes with an item id: the one it read from the
\* inventory listing, any when the id is not in the store
CallerNames(item_id) ==
    IF item_id \in DOMAIN inventory THEN {inventory[item_id].name} ELSE Names

\* app.py:702-711: a cart line is built from an inventory row
CartLines(lines) ==
    { [id |-> l.id, name |-> inventory[l.id].name, qty |-> l.qty, note |-> ""] :
      l \in { k \in lines : k.id \in DOMAIN inventory } }
Carts(lines) == UNION { [1..n -> CartLines(lines)] : n \in 0..MaxLines }

\* the carts of the concurrent sessions: the empty one and those of one line
ConCarts == { <<>> } \cup { <<l>> : l \in CartLines(ConLineInputs) }

\* the price the add-item form passes (app.py:440); the sale percent and the
\* BOGO flag keep their defaults (backend.py:128)
ListPrice == Rat(999, 100)

\* the row add_item inserts (backend.py:150-164)
ItemRow(name, barcode, quantity) ==
    [name |-> name, barcode |-> barcode, quantity |-> quantity,
     price |-> ListPrice, sale_percent |-> 0, bogo |-> FALSE]

\* the initial stock logged with quantity 0
InitialStockRowZero(item_id, name, quantity) ==
    TxnRow(item_id, name, "INITIAL_STOCK", 0, "Initial stock added", NoReceipt, "CASH")

\* the row add_item logs for the initial stock (backend.py:168)
InitialStockRow(item_id, name, quantity) ==
    TxnRow(item_id, name, "INITIAL_STOCK", quantity, "Initial stock added",
           NoReceipt, "CASH")

\* The store outlives the sessions: a behaviour starts from the empty store
\* or from the store two add_item calls have filled (items A with 5 units
\* and B with 3 units, each with its INITIAL_STOCK row).
EmptyStore ==
    [inventory |-> <<>>, nextId |-> 1, transactions |-> <<>>, changes |-> <<>>]
StockedStore ==
    [inventory |-> <<ItemRow("A", NoBarcode, 5), ItemRow("B", "b1", 3)>>,
     nextId |-> 3,
     transactions |-> <<InitialStockRow(1, "A", 5), InitialStockRow(2, "B", 3)>>,
     changes |-> <<[item_id |-> 1, delta |-> 5], [item_id |-> 2, delta |-> 3]>>]
InitialStores == {EmptyStore, StockedStore}

Init ==
    /\ \E store \in InitialStores :
          /\ inventory = store.inventory
          /\ nextId = store.nextId
          /\ transactions = store.transactions
          /\ changes = store.changes
    /\ nextUuid = 0
    /\ proc = [p \in Sessions |-> IdleProc]
    /\ calls = [p \in Sessions |-> 0]
    /\ logFailures = 0
    /\ retry = NoRetry
    /\ pricing = NoPricing
    /\ live = NoLive
    /\ pos = NoPos

\* the session after one of its store requests has raised (network fault,
\* rejected request); raised records it for the running call
Raised(self) == [self EXCEPT !.raised = TRUE]

(* ---------------------------- returns ---------------------------------- *)
\* update_stock returns res: to the caller of a direct call, or into the
\* loop of process_batch_transaction (backend.py:221-232)
AfterUpdateStock(self, res) ==
    IF self.op = "update_stock"
    THEN [self EXCEPT !.pc = "idle", !.us_ret = res, !.ret = res]
    ELSE [self EXCEPT !.pc = "pb_loop", !.us_ret = res,
                      !.pb.errors = IF res.ok THEN @
                                    ELSE Append(@, LineError(self.us.item_name, res)),
                      !.pb.rets = Append(@, res),
                      !.pb.i = @ + 1]

\* backend.py:285, 295, 298: the first component of what log_transaction returns
LogSuccess(log_ret) == log_ret # "LogFailed"

\* log_transaction returns log_ret: add_item ignores it (backend.py:168-170),
\* update_stock builds its message from it (193-199)
AfterLog(self, log_ret) ==
    IF self.op = "add_item"
    THEN [self EXCEPT !.pc = "idle", !.log_ret = log_ret,
                      !.ret = [NoResult EXCEPT !.ok = TRUE, !.kind = "ItemAdded"]]
    ELSE AfterUpdateStock([self EXCEPT !.log_ret = log_ret],
                          UpdatedMsg(self.us.new_qty, LogSuccess(log_ret)))

\* the frame of one update_stock call
UsFrame(item_id, item_name, change, type, note, receipt_id, payment) ==
    [item_id |-> item_id, item_name |-> item_name, change |-> change, type |-> type,
     note |-> note, receipt_id |-> receipt_id, payment |-> payment, new_qty |-> 0,
     pre_inventory |-> inventory, pre_len |-> Len(transactions)]

(* ---------------------------- add_item --------------------------------- *)
\* backend.py:128-138: the call and its argument normalisation, as one of
\* at most limit calls of session p
CallAddItem(p, name, barcode, quantity, limit) ==
    /\ proc[p].pc = "idle"
    /\ calls[p] < limit
    /\ calls' = [calls EXCEPT ![p] = @ + 1]
    /\ proc' = [proc EXCEPT ![p] =
                 [IdleProc EXCEPT !.op = "add_item", !.pc = "ai_select_name",
                                  !.ai = [name |-> name, barcode |-> NormBarcode(barcode),
                                          quantity |-> quantity,
                                          pre_inventory |-> inventory]]]
    /\ UNCHANGED <<inventory, nextId, transactions, nextUuid, changes, logFailures>>
    /\ UNCHANGED otherVars

StartAddItem(p, name, barcode, quantity) ==
    CallAddItem(p, name, barcode, quantity, CallLimit(p))

\* The unique constraints of table "inventory" on name and on barcode, which
\* the code counts on (backend.py:131, database.py:96, 105-106): a row with
\* this id, name and barcode would repeat the name of another row, or its
\* barcode; NULL barcodes repeat nothing.
UniqueViolation(rows, id, name, barcode) ==
    \E i \in DOMAIN rows :
        /\ i # id
        /\ \/ rows[i].name = name
           \/ barcode # NoBarcode /\ rows[i].barcode = barcode

\* backend.py:141-143 (and 171-172 when the request raises)
AI_SelectName(p) ==
    LET self == proc[p] IN
    /\ self.pc = "ai_select_name"
    /\ \/ /\ proc' = [proc EXCEPT ![p] =
                        [Raised(self) EXCEPT !.pc = "idle", !.ret = ExceptionMsg]]
       \/ /\ proc' = [proc EXCEPT ![p] =
                IF \E i \in DOMAIN inventory : inventory[i].name = self.ai.name
                THEN [self EXCEPT !.pc = "idle",
                                  !.ret = [NoResult EXCEPT !.kind = "NameExists",
                                                           !.name = self.ai.name]]
                ELSE IF self.ai.barcode # NoBarcode
                     THEN [self EXCEPT !.pc = "ai_select_barcode"]
                     ELSE [self EXCEPT !.pc = "ai_insert"]]
    /\ UNCHANGED <<inventory, nextId, transactions, nextUuid, calls, changes, logFailures>>
    /\ UNCHANGED otherVars

\* backend.py:145-148
AI_SelectBarcode(p) ==
    LET self == proc[p] IN
    /\ self.pc = "ai_select_barcode"
    /\ \/ /\ proc' = [proc EXCEPT ![p] =
                        [Raised(self) EXCEPT !.pc = "idle", !.ret = ExceptionMsg]]
       \/ /\ proc' = [proc EXCEPT ![p] =
                IF \E i \in DOMAIN inventory : inventory[i].barcode = self.ai.barcode
                THEN [self EXCEPT !.pc = "idle",
                                  !.ret = [NoResult EXCEPT !.kind = "BarcodeExists",
                                                           !.name = self.ai.barcode]]
                ELSE [self EXCEPT !.pc = "ai_insert"]]
    /\ UNCHANGED <<inventory, nextId, transactions, nextUuid, calls, changes, logFailures>>
    /\ UNCHANGED otherVars

\* backend.py:150-168: the insert, then the call of log_transaction; the
\* store rejects a row that breaks a unique constraint, and the request raises
AI_Insert(p) ==
    LET self == proc[p] IN
    /\ self.pc = "ai_insert"
    /\ \/ /\ proc' = [proc EXCEPT ![p] =
                        [Raised(self) EXCEPT !.pc = "idle", !.ret = ExceptionMsg]]
          /\ UNCHANGED <<inventory, nextId, changes>>
       \/ /\ UniqueViolation(inventory, nextId, self.ai.name, self.ai.barcode)
          /\ proc' = [proc EXCEPT ![p] =
                        [Raised(self) EXCEPT !.pc = "idle", !.ret = DuplicateKeyMsg]]
          /\ UNCHANGED <<inventory, nextId, changes>>
       \/ /\ ~UniqueViolation(inventory, nextId, self.ai.name, self.ai.barcode)
          /\ inventory' = inventory @@ (nextId :> ItemRow(self.ai.name, self.ai.barcode,
                                                           self.ai.quantity))
          /\ nextId' = nextId + 1
          /\ changes' = Append(changes, [item_id |-> nextId, delta |-> self.ai.quantity])
          /\ proc' = [proc EXCEPT ![p] =
                [self EXCEPT !.pc = "lt_insert",
                             !.data = InitialStockRow(nextId, self.ai.name,
                                                      self.ai.quantity)]]
    /\ UNCHANGED <<transactions, nextUuid, calls, logFailures>>
    /\ UNCHANGED otherVars

(* ---------------------------- log_transaction -------------------------- *)
\* backend.py:284-289: the first insert
LT_Insert(p) ==
    LET self == proc[p] IN
    /\ self.pc = "lt_insert"
    /\ \/ /\ proc' = [proc EXCEPT ![p] = [Raised(self) EXCEPT !.pc = "lt_fallback"]]
          /\ UNCHANGED transactions
       \/ /\ transactions' = Append(transactions, self.data)
          /\ proc' = [proc EXCEPT ![p] = AfterLog(self, "Logged")]
    /\ UNCHANGED <<inventory, nextId, nextUuid, calls, changes, logFailures>>
    /\ UNCHANGED otherVars

\* backend.py:290-298: the fallback insert
LT_Fallback(p) ==
    LET self == proc[p] IN
    /\ self.pc = "lt_fallback"
    /\ \/ /\ logFailures' = logFailures + 1
          /\ proc' = [proc EXCEPT ![p] = AfterLog(Raised(self), "LogFailed")]
          /\ UNCHANGED transactions
       \/ /\ UNCHANGED logFailures
          /\ transactions' = Append(transactions, FallbackRow(self.data))
          /\ proc' = [proc EXCEPT ![p] = AfterLog(self, "LoggedFallback")]
    /\ UNCHANGED <<inventory, nextId, nextUuid, calls, changes>>
    /\ UNCHANGED otherVars

(* ---------------------------- update_stock ----------------------------- *)
\* add_item, update_stock and log_transaction catch every exception in their
\* own try block (backend.py:171, 200, 286-298) and return a value, so the
\* retry_db wrapper around them (backend.py:36-49) returns that value from
\* its first attempt: a call is one run of the function body.
\* backend.py:175: a direct call
StartUpdateStock(p, item_id, item_name, a) ==
    /\ proc[p].pc = "idle"
    /\ calls[p] < CallLimit(p)
    /\ calls' = [calls EXCEPT ![p] = @ + 1]
    /\ proc' = [proc EXCEPT ![p] =
                 [IdleProc EXCEPT !.op = "update_stock", !.pc = "us_select",
                                  !.us = UsFrame(item_id, item_name, a.change, a.type,
                                                 a.note, NoReceipt, a.payment)]]
    /\ UNCHANGED <<inventory, nextId, transactions, nextUuid, changes, logFailures>>
    /\ UNCHANGED otherVars

\* backend.py:179-187: read the quantity, compute and test the new one
US_Select(p) ==
    LET self == proc[p] IN
    /\ self.pc = "us_select"
    /\ \/ /\ proc' = [proc EXCEPT ![p] = AfterUpdateStock(Raised(self), ExceptionMsg)]
       \/ /\ proc' = [proc EXCEPT ![p] =
                IF self.us.item_id \notin DOMAIN inventory
                THEN AfterUpdateStock(self, NotFoundMsg)
                ELSE LET new_qty == NewQty(inventory[self.us.item_id].quantity,
                                           self.us.change)
                     IN IF InsufficientStock(new_qty)
                        THEN AfterUpdateStock(self, InsufficientMsg(self.us.item_name))
                        ELSE [self EXCEPT !.pc = "us_update", !.us.new_qty = new_qty]]
    /\ UNCHANGED <<inventory, nextId, transactions, nextUuid, calls, changes, logFailures>>
    /\ UNCHANGED otherVars

\* backend.py:190-193: write the new quantity, then call log_transaction
US_Update(p) ==
    LET self == proc[p] IN
    /\ self.pc = "us_update"
    /\ \/ /\ proc' = [proc EXCEPT ![p] = AfterUpdateStock(Raised(self), ExceptionMsg)]
          /\ UNCHANGED <<inventory, changes>>
       \/ /\ IF self.us.item_id \in DOMAIN inventory
             THEN /\ inventory' = [inventory EXCEPT
                                     ![self.us.item_id].quantity = self.us.new_qty]
                  /\ changes' = Append(changes, [item_id |-> self.us.item_id,
                                                 delta |-> self.us.change])
             ELSE UNCHANGED <<inventory, changes>>
          /\ proc' = [proc EXCEPT ![p] =
                [self EXCEPT !.pc = "lt_insert",
                             !.data = TxnRow(self.us.item_id, self.us.item_name,
                                             self.us.type, LogQuantity(self.us.change),
                                             self.us.note, self.us.receipt_id,
                                             self.us.payment)]]
    /\ UNCHANGED <<nextId, transactions, nextUuid, calls, logFailures>>
    /\ UNCHANGED otherVars

(* ---------------------------- process_batch_transaction ---------------- *)
\* backend.py:203-210: the call; uuid4() is a token no earlier call produced
CallBatch(p, cart, mode, limit) ==
    /\ proc[p].pc = "idle"
    /\ calls[p] < limit
    /\ calls' = [calls EXCEPT ![p] = @ + 1]
    /\ nextUuid' = nextUuid + 1
    /\ proc' = [proc EXCEPT ![p] =
                 [IdleProc EXCEPT !.op = "process_batch", !.pc = "pb_loop",
                                  !.pb = [cart |-> cart, type |-> mode[1],
                                          payment |-> mode[2],
                                          receipt_id |-> <<nextUuid + 1>>,
                                          i |-> 1, errors |-> <<>>, rets |-> <<>>,
                                          pre_inventory |-> inventory,
                                          pre_len |-> Len(transactions),
                                          pre_failures |-> logFailures]]]
    /\ UNCHANGED <<inventory, nextId, transactions, changes, logFailures>>
    /\ UNCHANGED otherVars

StartBatch(p, cart, mode) == CallBatch(p, cart, mode, CallLimit(p))

\* a loop that gives up at the first line that failed
MoreLinesUntilError(pb) == pb.i <= Len(pb.cart) /\ pb.errors = <<>>

\* backend.py:212 "for item in cart_items": a line is left to attempt
MoreLines(pb) == pb.i <= Len(pb.cart)

\* backend.py:212-229 for the next line of the cart, 234-237 after the last
PB_Loop(p) ==
    LET self == proc[p] IN
    /\ self.pc = "pb_loop"
    /\ proc' = [proc EXCEPT ![p] =
          IF MoreLines(self.pb)
          THEN LET item == self.pb.cart[self.pb.i] IN
               [self EXCEPT !.pc = "us_select", !.raised = FALSE, !.log_ret = "none",
                            !.us = UsFrame(item.id, item.name,
                                           BatchChange(self.pb.type, item.qty),
                                           self.pb.type, item.note,
                                           self.pb.receipt_id, self.pb.payment)]
          ELSE [self EXCEPT !.pc = "idle",
                            !.ret = BatchResult(self.pb.errors, self.pb.receipt_id)]]
    /\ UNCHANGED <<inventory, nextId, transactions, nextUuid, calls, changes, logFailures>>
    /\ UNCHANGED otherVars

(* ---------------------------- update_item_details, delete_item -------- *)
\* the calls one session makes on the catalogue, one after another
CatLimit == MaxCalls + 1

\* rows that can collide with the stocked store: a name in use, a barcode in
\* use, no barcode at all, a new name with a new barcode
CatAddInputs ==
    { [name |-> "A", barcode |-> "b2", quantity |-> 1],
      [name |-> "C", barcode |-> "b1", quantity |-> 1],
      [name |-> "C", barcode |-> "", quantity |-> 0],
      [name |-> "D", barcode |-> "", quantity |-> 1],
      [name |-> "D", barcode |-> "b2", quantity |-> 2] }
\* the price and promotion fields of the edit form (app.py:491-505): the
\* ones the item was added with, or a new price with a sale and BOGO
DetailPromos ==
    { [price |-> ListPrice, sale_percent |-> 0, bogo |-> FALSE],
      [price |-> Rat(10, 1), sale_percent |-> 50, bogo |-> TRUE] }
CatDetailInputs ==
    { [name |-> n, barcode |-> b, price |-> d.price, sale_percent |-> d.sale_percent,
       bogo |-> d.bogo] : n \in {"A", "C"}, b \in {"", "b1", "b2"}, d \in DetailPromos }

\* backend.py:268, 307
UpdatedDetailsMsg == [NoResult EXCEPT !.ok = TRUE, !.kind = "ItemUpdated"]
DeletedMsg == [NoResult EXCEPT !.ok = TRUE, !.kind = "ItemDeleted"]

\* backend.py:243-266 update_item_details up to its store request
StartUpdateDetails(p, item_id, name, barcode, price, sale_percent, bogo) ==
    /\ proc[p].pc = "idle"
    /\ calls[p] < CatLimit
    /\ calls' = [calls EXCEPT ![p] = @ + 1]
    /\ proc' = [proc EXCEPT ![p] =
                 [IdleProc EXCEPT !.op = "update_item_details", !.pc = "ud_update",
                                  !.ud = [item_id |-> item_id, name |-> name,
                                          barcode |-> NormBarcode(barcode),
                                          price |-> price,
                                          sale_percent |-> sale_percent,
                                          bogo |-> bogo]]]
    /\ UNCHANGED <<inventory, nextId, transactions, nextUuid, changes, logFailures>>
    /\ UNCHANGED otherVars

\* the update that also sets the quantity column
UpdatedRowWithQuantity(row, data) ==
    [row EXCEPT !.name = data.name, !.barcode = data.barcode, !.price = data.price,
                !.sale_percent = data.sale_percent, !.bogo = data.bogo,
                !.quantity = 0]

\* backend.py:254-267: the columns of data written over the row; quantity is
\* not among them
UpdatedRow(row, data) ==
    [row EXCEPT !.name = data.name, !.barcode = data.barcode, !.price = data.price,
                !.sale_percent = data.sale_percent, !.bogo = data.bogo]

\* backend.py:267-270: the update of the row with that id (of no row when the
\* id is unknown), which the store rejects when it breaks a unique constraint
UD_Update(p) ==
    LET self == proc[p]
        ud == self.ud
    IN
    /\ self.pc = "ud_update"
    /\ \/ /\ proc' = [proc EXCEPT ![p] =
                        [Raised(self) EXCEPT !.pc = "idle", !.ret = ExceptionMsg]]
          /\ UNCHANGED inventory
       \/ /\ ud.item_id \in DOMAIN inventory
          /\ UniqueViolation(inventory, ud.item_id, ud.name, ud.barcode)
          /\ proc' = [proc EXCEPT ![p] =
                        [Raised(self) EXCEPT !.pc = "idle", !.ret = DuplicateKeyMsg]]
          /\ UNCHANGED inventory
       \/ /\ ud.item_id \in DOMAIN inventory
             => ~UniqueViolation(inventory, ud.item_id, ud.name, ud.barcode)
          /\ inventory' =
                IF ud.item_id \in DOMAIN inventory
                THEN [inventory EXCEPT ![ud.item_id] = UpdatedRow(@, ud)]
                ELSE inventory
          /\ proc' = [proc EXCEPT ![p] =
                        [self EXCEPT !.pc = "idle", !.ret = UpdatedDetailsMsg]]
    /\ UNCHANGED <<nextId, transactions, nextUuid, calls, changes, logFailures>>
    /\ UNCHANGED otherVars

\* backend.py:300-302 delete_item up to its first store request
StartDelete(p, item_id) ==
    /\ proc[p].pc = "idle"
    /\ calls[p] < CatLimit
    /\ calls' = [calls EXCEPT ![p] = @ + 1]
    /\ proc' = [proc EXCEPT ![p] =
                 [IdleProc EXCEPT !.op = "delete_item", !.pc = "di_transactions",
                                  !.di = [item_id |-> item_id,
                                          pre_inventory |-> inventory,
                                          pre_transactions |-> transactions]]]
    /\ UNCHANGED <<inventory, nextId, transactions, nextUuid, changes, logFailures>>
    /\ UNCHANGED otherVars

\* the rows of the transactions of an item
HistoryOf(rows, item_id) == SelectSeq(rows, LAMBDA row : row.item_id = item_id)

\* backend.py:304 (and 308-309 when the request raises)
DI_DeleteTransactions(p) ==
    LET self == proc[p] IN
    /\ self.pc = "di_transactions"
    /\ \/ /\ proc' = [proc EXCEPT ![p] =
                        [Raised(self) EXCEPT !.pc = "idle", !.ret = ExceptionMsg]]
          /\ UNCHANGED transactions
       \/ /\ transactions' =
                SelectSeq(transactions, LAMBDA row : row.item_id # self.di.item_id)
          /\ proc' = [proc EXCEPT ![p] = [self EXCEPT !.pc = "di_inventory"]]
    /\ UNCHANGED <<inventory, nextId, nextUuid, calls, changes, logFailures>>
    /\ UNCHANGED otherVars

\* backend.py:306-309
DI_DeleteInventory(p) ==
    LET self == proc[p] IN
    /\ self.pc = "di_inventory"
    /\ \/ /\ proc' = [proc EXCEPT ![p] =
                        [Raised(self) EXCEPT !.pc = "idle", !.ret = ExceptionMsg]]
          /\ UNCHANGED inventory
       \/ /\ inventory' = [i \in DOMAIN inventory \ {self.di.item_id} |-> inventory[i]]
          /\ proc' = [proc EXCEPT ![p] = [self EXCEPT !.pc = "idle", !.ret = DeletedMsg]]
    /\ UNCHANGED <<nextId, transactions, nextUuid, calls, changes, logFailures>>
    /\ UNCHANGED otherVars

(* ---------------------------- POS page --------------------------------- *)
\* the checkouts of the cashier in one behaviour
PosLimit == MaxCalls + 1

\* what the cashier enters: the quantity and the note of the manual form
\* (app.py:675, 680), the checkout discount (app.py:777), the pay button
\* (app.py:823, 851)
PosQuantities == {2}
PosNotes == {""}
PosDiscounts == {0, 10}
PosModes == { <<"SALE", "CASH">>, <<"SALE", "CARD">> }

\* no handler of the page waits for process_batch_transaction
PosIdle == proc["s1"].pc = "idle" /\ calls["s1"] = pos.handled

\* backend.py:362-372 update_live_cart as one step: the upsert is executed,
\* or it raises and the function returns False
UpdateLiveCart(cart_data, ok) ==
    IF ok THEN [live EXCEPT !.row = JsonDumps(cart_data)] ELSE live

\* app.py:54-65 sync_cart on session state st: the snapshot it passes to
\* update_live_cart, and the value update_live_cart returns and sync_cart drops
SyncCart(st, ok) ==
    [st EXCEPT !.sync_data = SyncCartData(st.cart, st.checkout_discount),
               !.sync_ret = IF ok THEN "ok" ELSE "failed"]

\* app.py:738, 769-771: the script run that follows a handler draws the cart
\* section, which applies a pending reset of the checkout discount
RenderCart(st) ==
    IF st.cart # <<>> /\ st.reset_discount
    THEN [st EXCEPT !.checkout_discount = 0, !.reset_discount = FALSE]
    ELSE st

\* the session state when handler op starts
Before(op) ==
    [pos EXCEPT !.op = op, !.pre_cart = pos.cart,
                !.pre_discount = pos.checkout_discount,
                !.item_data = NoItemData, !.found = FALSE,
                !.sync_data = EmptyLiveCart, !.sync_ret = "none"]

\* a successful checkout that keeps the cart
CheckoutSucceededKeepsCart(st) == [st EXCEPT !.reset_discount = TRUE]

\* app.py:842-843, 870-871, 884-885, 893-894: the cart is emptied and the
\* discount marked for reset
CheckoutSucceeded(st) == [st EXCEPT !.cart = <<>>, !.reset_discount = TRUE]

\* a failed checkout that drops the lines of the cart
CheckoutFailedClears(st) == [st EXCEPT !.cart = <<>>]

\* app.py:847-848, 875-876: a failed checkout shows the error and nothing else
CheckoutFailed(st) == st

\* a handler has changed the session state to st and called sync_cart; the
\* script then runs again
SyncAndRerun(st) ==
    \E ok \in BOOLEAN :
        /\ pos' = LET next == RenderCart(SyncCart(st, ok))
                  IN  [next EXCEPT !.cart_data =
                           SyncCartData(next.cart, next.checkout_discount)]
        /\ live' = UpdateLiveCart(SyncCart(st, ok).sync_data, ok)

\* app.py:683-713 add_manual_item (599-622 process_scan), Sale mode
POS_AddItem(item_id, qty, note) ==
    /\ PosIdle
    /\ pos.ops < MaxPosOps
    /\ item_id \in DOMAIN inventory
    /\ ~(inventory[item_id].quantity < qty)
    /\ LET item_data == ItemData(item_id, inventory[item_id], qty, note)
       IN  SyncAndRerun([Before("add") EXCEPT
                           !.cart = AddToCartConsolidated(pos.cart, item_data),
                           !.item_data = item_data,
                           !.found = SameLine(pos.cart, item_data) # {},
                           !.ops = @ + 1])
    /\ UNCHANGED <<ledgerVars, retry, pricing>>

\* app.py:791-798 Remove Selected Item
POS_RemoveItem(name) ==
    /\ PosIdle
    /\ \E k \in 1..Len(pos.cart) : pos.cart[k].name = name
    /\ SyncAndRerun([Before("remove") EXCEPT
                       !.cart = SelectSeq(pos.cart, LAMBDA i : i.name # name)])
    /\ UNCHANGED <<ledgerVars, retry, pricing>>

\* app.py:777: the checkout discount input, on_change=sync_cart
POS_SetDiscount(d) ==
    /\ PosIdle
    /\ pos.ops < MaxPosOps
    /\ pos.cart # <<>>
    /\ d # pos.checkout_discount
    /\ SyncAndRerun([Before("discount") EXCEPT !.checkout_discount = d, !.ops = @ + 1])
    /\ UNCHANGED <<ledgerVars, retry, pricing>>

\* app.py:823-824, 851-852: a pay button calls process_batch_transaction
\* with the cart of the session
POS_Pay(mode) ==
    /\ PosIdle
    /\ pos.cart # <<>>
    /\ CallBatch("s1", pos.cart, mode, PosLimit)

\* app.py:826-848, 854-876: the handler after process_batch_transaction has
\* returned
POS_PayReturn ==
    /\ proc["s1"].op = "process_batch"
    /\ proc["s1"].pc = "idle"
    /\ calls["s1"] > pos.handled
    /\ IF proc["s1"].ret.ok
       THEN SyncAndRerun(CheckoutSucceeded([Before("pay_ok") EXCEPT !.handled = @ + 1]))
       ELSE /\ pos' = CheckoutFailed([Before("pay_failed") EXCEPT !.handled = @ + 1])
            /\ UNCHANGED live
    /\ UNCHANGED <<ledgerVars, retry, pricing>>

\* app.py:892-897 Empty Cart (Cancel)
POS_EmptyCart ==
    /\ PosIdle
    /\ pos.cart # <<>>
    /\ SyncAndRerun(CheckoutSucceeded(Before("cancel")))
    /\ UNCHANGED <<ledgerVars, retry, pricing>>

\* a heartbeat whose sync_cart publishes nothing
POS_HeartbeatIdle ==
    /\ PosIdle
    /\ UNCHANGED <<ledgerVars, otherVars>>

\* app.py:652-656 auto_sync_heartbeat: the fragment calls sync_cart every
\* 5 seconds
POS_Heartbeat ==
    /\ PosIdle
    /\ \E ok \in BOOLEAN : live' = UpdateLiveCart(pos.cart_data, ok)
    /\ UNCHANGED <<ledgerVars, retry, pricing, pos>>

\* app.py:283-284, 376-377: the customer display calls get_live_cart
\* (backend.py:374-386), shows what it returns, sleeps and runs again
POS_Poll ==
    /\ \/ pos' = [pos EXCEPT !.display = LiveCartOf(live.row), !.poll = "ok"]
       \/ pos' = [pos EXCEPT !.display = NoneValue, !.poll = "failed"]
    /\ UNCHANGED <<ledgerVars, retry, pricing, live>>

(* ---------------------------- specification ---------------------------- *)
\* the steps inside a call, one per store request
Inside(p) ==
    \/ AI_SelectName(p)
    \/ AI_SelectBarcode(p)
    \/ AI_Insert(p)
    \/ LT_Insert(p)
    \/ LT_Fallback(p)
    \/ US_Select(p)
    \/ US_Update(p)
    \/ PB_Loop(p)

\* a session starts a call with inputs of the given sets
Start(p, adds, adjusts, carts, modes) ==
    \/ \E a \in adds : StartAddItem(p, a.name, a.barcode, a.quantity)
    \/ \E item_id \in 1..nextId : \E item_name \in CallerNames(item_id), a \in adjusts :
          StartUpdateStock(p, item_id, item_name, a)
    \/ \E cart \in carts, mode \in modes : StartBatch(p, cart, mode)

\* two sessions whose store requests interleave
Next ==
    \E p \in Sessions :
        \/ Start(p, ConAddInputs, ConAdjustInputs, ConCarts, ConBatchModes)
        \/ Inside(p)

Spec == Init /\ [][Next]_vars

\* one session: every call returns before the next one starts
NextSeq ==
    \/ Start("s1", AddInputs, AdjustInputs, Carts(LineInputs), BatchModes)
    \/ Inside("s1")

SpecSeq == Init /\ [][NextSeq]_vars

\* one session that adds items, edits their details and deletes them
NextCat ==
    \/ \E a \in CatAddInputs : CallAddItem("s1", a.name, a.barcode, a.quantity, CatLimit)
    \/ AI_SelectName("s1") \/ AI_SelectBarcode("s1") \/ AI_Insert("s1")
    \/ LT_Insert("s1") \/ LT_Fallback("s1")
    \/ \E item_id \in 1..nextId, d \in CatDetailInputs :
          StartUpdateDetails("s1", item_id, d.name, d.barcode, d.price,
                             d.sale_percent, d.bogo)
    \/ UD_Update("s1")
    \/ \E item_id \in 1..nextId : StartDelete("s1", item_id)
    \/ DI_DeleteTransactions("s1")
    \/ DI_DeleteInventory("s1")

SpecCat == Init /\ [][NextCat]_vars

\* session s1 deletes items while session s2 adjusts their stock
NextDel ==
    \/ \E item_id \in 1..nextId : StartDelete("s1", item_id)
    \/ DI_DeleteTransactions("s1")
    \/ DI_DeleteInventory("s1")
    \/ \E item_id \in 1..nextId :
          \E item_name \in CallerNames(item_id), a \in ConAdjustInputs :
             StartUpdateStock("s2", item_id, item_name, a)
    \/ US_Select("s2")
    \/ US_Update("s2")
    \/ LT_Insert("s2")
    \/ LT_Fallback("s2")

SpecDel == Init /\ [][NextDel]_vars

\* the cashier of session s1 edits the cart while session s2 edits the price
\* and the promotions of the items
NextPos ==
    \/ \E item_id \in 1..nextId, qty \in PosQuantities, note \in PosNotes :
          POS_AddItem(item_id, qty, note)
    \/ \E name \in Names : POS_RemoveItem(name)
    \/ \E d \in PosDiscounts : POS_SetDiscount(d)
    \/ POS_EmptyCart
    \/ \E item_id \in DOMAIN inventory, d \in DetailPromos :
          StartUpdateDetails("s2", item_id, inventory[item_id].name,
                             inventory[item_id].barcode, d.price, d.sale_percent,
                             d.bogo)
    \/ UD_Update("s2")

SpecPos == Init /\ [][NextPos]_vars

\* the cashier of session s1 fills the cart and pays or cancels
NextPay ==
    \/ \E item_id \in 1..nextId, qty \in PosQuantities, note \in PosNotes :
          POS_AddItem(item_id, qty, note)
    \/ \E d \in PosDiscounts : POS_SetDiscount(d)
    \/ \E mode \in PosModes : POS_Pay(mode)
    \/ PB_Loop("s1")
    \/ US_Select("s1")
    \/ US_Update("s1")
    \/ LT_Insert("s1")
    \/ LT_Fallback("s1")
    \/ POS_PayReturn
    \/ POS_EmptyCart

SpecPay == Init /\ [][NextPay]_vars

\* the cashier edits the cart while the heartbeat publishes it and the
\* customer display polls. The fragment of the heartbeat and the loop of the
\* display run again and again (app.py:653 run_every=5, 376-377 sleep and
\* rerun), and a request that is repeated is eventually answered: hence the
\* two fairness conditions.
NextConv ==
    \/ \E item_id \in 1..nextId, qty \in PosQuantities, note \in PosNotes :
          POS_AddItem(item_id, qty, note)
    \/ \E name \in Names : POS_RemoveItem(name)
    \/ \E d \in PosDiscounts : POS_SetDiscount(d)
    \/ POS_EmptyCart
    \/ POS_Heartbeat
    \/ POS_Poll

SpecConv ==
    Init /\ [][NextConv]_vars /\ WF_vars(POS_Heartbeat) /\ WF_vars(POS_Poll)

\* the stock ledger at rest, while another component of the program runs
LedgerAtRest ==
    /\ inventory = EmptyStore.inventory
    /\ nextId = EmptyStore.nextId
    /\ transactions = EmptyStore.transactions
    /\ changes = EmptyStore.changes
    /\ nextUuid = 0
    /\ proc = [p \in Sessions |-> IdleProc]
    /\ calls = [p \in Sessions |-> 0]
    /\ logFailures = 0

\* one call of a function decorated with retry_db; the loop of the wrapper
\* keeps running (time.sleep returns), hence the fairness condition
InitRetry ==
    /\ LedgerAtRest
    /\ retry \in RetryInputs
    /\ pricing = NoPricing
    /\ live = NoLive
    /\ pos = NoPos

NextRetry == RD_Call \/ RD_Sleep

SpecRetry == InitRetry /\ [][NextRetry]_vars /\ WF_vars(NextRetry)

\* one call of a pricing function of app.py
InitPricing ==
    /\ LedgerAtRest
    /\ retry = NoRetry
    /\ pricing \in PricingInputs
    /\ live = NoLive
    /\ pos = NoPos

NextPricing == PR_EffectivePrice \/ PR_BogoPaidQty \/ PR_CartTotals

SpecPricing == InitPricing /\ [][NextPricing]_vars

\* the POS sessions publish carts while the customer display polls
InitLive ==
    /\ LedgerAtRest
    /\ retry = NoRetry
    /\ pricing = NoPricing
    /\ live = NoLive
    /\ pos = NoPos

NextLive ==
    \/ \E p \in Sessions :
          \/ \E cart_data \in LiveSnapshots : LC_StartPublish(p, cart_data)
          \/ LC_StartClear(p)
          \/ LC_Upsert(p)
    \/ \E r \in Readers : LC_StartFetch(r) \/ LC_Select(r)

SpecLive == InitLive /\ [][NextLive]_vars

TypeOK ==
    /\ \A i \in DOMAIN inventory : inventory[i].quantity \in Int
    /\ \A p \in Sessions : calls[p] \in 0..CatLimit

(* ---------------------------- properties ------------------------------- *)
\* no session is inside a call
Quiescent == \A p \in Sessions : proc[p].pc = "idle"

\* the sum of the deltas written to item i, initial stock included
RECURSIVE SumDeltas(_, _)
SumDeltas(seq, i) ==
    IF seq = <<>> THEN 0
    ELSE (IF Head(seq).item_id = i THEN Head(seq).delta ELSE 0) + SumDeltas(Tail(seq), i)
Ledger(i) == SumDeltas(changes, i)

\* session p has returned from a direct update_stock call with success
AdjustedOk(p, i) ==
    /\ proc[p].op = "update_stock"
    /\ proc[p].pc = "idle"
    /\ proc[p].us.item_id = i
    /\ proc[p].ret.ok

\* the one session of SpecSeq
s1 == proc["s1"]

\* update_stock has returned in session s1 (to a direct caller or into the
\* batch loop) and no later call has started
UsReturned ==
    /\ s1.op \in {"update_stock", "process_batch"}
    /\ s1.pc \in {"idle", "pb_loop"}
    /\ s1.us_ret # NoResult

\* the quantity the returned update_stock call found in the store
UsCurrent == s1.us.pre_inventory[s1.us.item_id].quantity

\* process_batch_transaction has returned in session s1
PbReturned ==
    /\ s1.op = "process_batch"
    /\ s1.pc = "idle"

\* C1: for every item created with quantity >= 0 the stored quantity is >= 0
\* in every reachable state, whatever add_item, update_stock and
\* process_batch_transaction calls ran and however the store requests of two
\* sessions interleaved.
C1_QuantityNeverNegative ==
    \A i \in DOMAIN inventory : inventory[i].quantity >= 0

\* two direct adjustments of the same item have interleaved their read and
\* write requests: both returned success and one write is lost
C1_Witness ==
    \E i \in DOMAIN inventory :
        /\ AdjustedOk("s1", i)
        /\ AdjustedOk("s2", i)
        /\ inventory[i].quantity # Ledger(i)
        /\ inventory[i].quantity >= 0

\* C2: two concurrent update_stock calls on the same item never lose an
\* update: once all calls have returned, the quantity of every item is its
\* initial quantity plus the deltas of the calls that reported success.
C2_NoLostUpdate ==
    Quiescent => \A i \in DOMAIN inventory : inventory[i].quantity = Ledger(i)

\* C3: update_stock with current + delta < 0 returns the InsufficientStock
\* failure that names the item, leaves every quantity unchanged and appends
\* no transaction.
C3_InsufficientStockNoMutation ==
    ( /\ UsReturned
      /\ ~s1.raised
      /\ s1.us.item_id \in DOMAIN s1.us.pre_inventory
      /\ UsCurrent + s1.us.change < 0 )
    => /\ ~s1.us_ret.ok
       /\ s1.us_ret.kind = "InsufficientStock"
       /\ s1.us_ret.name = s1.us.item_name
       /\ inventory = s1.us.pre_inventory
       /\ Len(transactions) = s1.us.pre_len

\* a direct call asked for 5 units of an item that has 3
C3_Witness ==
    /\ UsReturned
    /\ s1.op = "update_stock"
    /\ ~s1.raised
    /\ s1.us.item_id \in DOMAIN s1.us.pre_inventory
    /\ UsCurrent = 3
    /\ s1.us.change = -5
    /\ inventory[s1.us.item_id].quantity = 3

\* C4: update_stock on an existing item with current + delta >= 0 and no
\* failing store request returns success, sets that item's quantity to
\* current + delta, leaves the other items alone and appends exactly one
\* transaction with quantity |delta| and the given type, note, receipt id
\* and payment method.
C4_AdjustAppliesAndLogs ==
    ( /\ UsReturned
      /\ ~s1.raised
      /\ s1.us.item_id \in DOMAIN s1.us.pre_inventory
      /\ UsCurrent + s1.us.change >= 0 )
    => /\ s1.us_ret.ok
       /\ s1.us_ret.kind = "StockUpdated"
       /\ ~s1.us_ret.warn
       /\ inventory = [s1.us.pre_inventory EXCEPT
                         ![s1.us.item_id].quantity = UsCurrent + s1.us.change]
       /\ Len(transactions) = s1.us.pre_len + 1
       /\ transactions[Len(transactions)] =
             [item_id |-> s1.us.item_id, item_name |-> s1.us.item_name,
              type |-> s1.us.type,
              quantity |-> IF s1.us.change < 0 THEN -s1.us.change ELSE s1.us.change,
              note |-> s1.us.note, receipt_id |-> s1.us.receipt_id,
              payment_method |-> s1.us.payment]

\* quantity 5, delta -3: quantity 2 and one transaction with quantity 3
C4_Witness ==
    /\ UsReturned
    /\ ~s1.raised
    /\ s1.us.item_id \in DOMAIN s1.us.pre_inventory
    /\ UsCurrent = 5
    /\ s1.us.change = -3
    /\ inventory[s1.us.item_id].quantity = 2
    /\ Len(transactions) = s1.us.pre_len + 1
    /\ transactions[Len(transactions)].quantity = 3

\* the number of entries of changes that change item i by magnitude m
RECURSIVE CountChanges(_, _, _)
CountChanges(seq, i, m) ==
    IF seq = <<>> THEN 0
    ELSE (IF Head(seq).item_id = i /\ Abs(Head(seq).delta) = m THEN 1 ELSE 0)
         + CountChanges(Tail(seq), i, m)

\* the number of transaction rows of item i with quantity m
RECURSIVE CountRows(_, _, _)
CountRows(seq, i, m) ==
    IF seq = <<>> THEN 0
    ELSE (IF Head(seq).item_id = i /\ Head(seq).quantity = m THEN 1 ELSE 0)
         + CountRows(Tail(seq), i, m)

Magnitudes ==
    { Abs(changes[k].delta) : k \in 1..Len(changes) }
    \cup { transactions[k].quantity : k \in 1..Len(transactions) }

\* stock changes and transaction rows match one to one, item and magnitude
ChangesMatchRows ==
    \A i \in 1..nextId, m \in Magnitudes :
        CountChanges(changes, i, m) = CountRows(transactions, i, m)

\* a call has written a quantity and its log_transaction has not returned
LogPending == \E p \in Sessions : proc[p].pc \in {"lt_insert", "lt_fallback"}

C6_LogFailureStillSuccess ==
    ( /\ UsReturned
      /\ s1.us.item_id \in DOMAIN s1.us.pre_inventory
      /\ s1.log_ret = "LogFailed" )
    => /\ s1.us_ret.ok
       /\ s1.us_ret.kind = "StockUpdated"
       /\ s1.us_ret.warn
       /\ inventory[s1.us.item_id].quantity = UsCurrent + s1.us.change
       /\ Len(transactions) = s1.us.pre_len

\* both inserts of a sale of 3 units raised: the quantity went from 5 to 2
C6_Witness ==
    /\ UsReturned
    /\ s1.log_ret = "LogFailed"
    /\ s1.us.item_id \in DOMAIN s1.us.pre_inventory
    /\ UsCurrent = 5
    /\ inventory[s1.us.item_id].quantity = 2
    /\ s1.us_ret.warn

\* the delta of the lines k.. of the cart that succeeded on item i, as the
\* claim states it: -qty for a SALE line, +qty for a RESTOCK line
RECURSIVE SucceededDelta(_, _, _, _, _)
SucceededDelta(cart, rets, type, i, k) ==
    IF k > Len(cart) THEN 0
    ELSE (IF rets[k].ok /\ cart[k].id = i
          THEN (IF type = "SALE" THEN -cart[k].qty ELSE cart[k].qty)
          ELSE 0)
         + SucceededDelta(cart, rets, type, i, k + 1)

SucceededLines(rets) == { k \in 1..Len(rets) : rets[k].ok }
FailedLineSet(rets) == { k \in 1..Len(rets) : ~rets[k].ok }

\* C7: when a line of a batch fails, the stock mutations and transactions
\* of the lines that succeeded stay applied, and the batch result is a
\* failure that names the failing items.
C7_PartialBatchNotRolledBack ==
    (PbReturned /\ Len(s1.pb.rets) = Len(s1.pb.cart) /\ FailedLineSet(s1.pb.rets) # {})
    => /\ \A i \in DOMAIN inventory :
             inventory[i].quantity =
                 s1.pb.pre_inventory[i].quantity
                 + SucceededDelta(s1.pb.cart, s1.pb.rets, s1.pb.type, i, 1)
       /\ (Len(transactions) - s1.pb.pre_len) + (logFailures - s1.pb.pre_failures)
             = Cardinality(SucceededLines(s1.pb.rets))
       /\ ~s1.ret.ok
       /\ \A k \in FailedLineSet(s1.pb.rets) :
             \E e \in 1..Len(s1.ret.errors) : s1.ret.errors[e].name = s1.pb.cart[k].name

\* lines (A, qty 2, stock 5) and (B, qty 10, stock 3), SALE: A ends at 3,
\* B stays at 3, the result is a failure naming B
C7_Witness ==
    /\ PbReturned
    /\ s1.pb.type = "SALE"
    /\ Len(s1.pb.cart) = 2
    /\ s1.pb.cart[1].id = 1 /\ s1.pb.cart[1].qty = 2
    /\ s1.pb.cart[2].id = 2 /\ s1.pb.cart[2].qty = 10
    /\ s1.pb.pre_inventory[1].quantity = 5
    /\ s1.pb.pre_inventory[2].quantity = 3
    /\ inventory[1].quantity = 3
    /\ inventory[2].quantity = 3
    /\ ~s1.ret.ok
    /\ s1.ret.errors = <<[name |-> "B", reason |-> "InsufficientStock"]>>
    /\ Len(transactions) = s1.pb.pre_len + 1

\* the lines k.. of the cart that failed, in cart order, each with the
\* name of its item and the reason update_stock gave
RECURSIVE FailedLines(_, _, _)
FailedLines(cart, rets, k) ==
    IF k > Len(cart) THEN <<>>
    ELSE (IF rets[k].ok THEN <<>>
          ELSE <<[name |-> cart[k].name, reason |-> rets[k].kind]>>)
         \o FailedLines(cart, rets, k + 1)

\* C8: process_batch_transaction returns success with the receipt id iff
\* the update_stock call of every line succeeded; otherwise one failure
\* that lists every failing line, name and reason, in cart order.
C8_BatchResultListsEveryFailure ==
    PbReturned
    => /\ Len(s1.pb.rets) = Len(s1.pb.cart)
       /\ s1.ret.ok <=> (FailedLineSet(s1.pb.rets) = {})
       /\ s1.ret.ok => /\ s1.ret.kind = "Receipt"
                       /\ s1.ret.receipt = s1.pb.receipt_id
                       /\ s1.ret.receipt # NoReceipt
       /\ ~s1.ret.ok => /\ s1.ret.kind = "SomeItemsFailed"
                        /\ s1.ret.errors = FailedLines(s1.pb.cart, s1.pb.rets, 1)

\* both lines of a cart failed, for different reasons
C8_Witness ==
    /\ PbReturned
    /\ Len(s1.pb.cart) = 2
    /\ Len(s1.ret.errors) = 2
    /\ s1.ret.errors[1].reason # s1.ret.errors[2].reason

\* C9: when some lines of a batch fail and others succeed, the result the
\* caller gets still holds the receipt id of the lines that succeeded.
C9_ReceiptInPartialFailure ==
    ( /\ PbReturned
      /\ SucceededLines(s1.pb.rets) # {}
      /\ FailedLineSet(s1.pb.rets) # {} )
    => s1.ret.receipt = s1.pb.receipt_id

\* C10: the rows a process_batch_transaction call writes are exactly the
\* rows that carry the receipt id it generated: every row of the call has
\* it and no row of another call has it.
C10_ReceiptOnEveryRow ==
    s1.op = "process_batch"
    => \A k \in 1..Len(transactions) :
          (k > s1.pb.pre_len) <=> (transactions[k].receipt_id = s1.pb.receipt_id)

(* ---------------------------- retry_db: claims ------------------------- *)
\* the wrapper has returned to its caller or raised
RetryDone == retry.pc \in {"returned", "raised"}
\* whether the k-th invocation of the wrapped function raises
RaisesAt(k) == FuncOutcome(retry.func, retry.faults[k]).raises

\* C11: a store fault inside update_stock is retried, up to 3 attempts, before
\* a failure reaches the caller: a call that returns the failure has made
\* all 3 attempts, and a call whose first attempt met a fault while the store
\* was healthy afterwards returns success.
C11_TransientFaultRetried ==
    (retry.func = "update_stock" /\ retry.max_retries = MaxRetries /\ RetryDone)
    => /\ (retry.pc = "raised" \/ retry.result = ExceptionMsg.kind)
            => retry.invoked = MaxRetries
       /\ (retry.faults[1] /\ \A k \in 2..MaxRetries : ~retry.faults[k])
            => retry.result = UpdatedMsg(0, TRUE).kind

\* what holds of the wrapper in every state
RetryBounded ==
    /\ retry.invoked <= retry.max_retries
    /\ retry.pc = "returned"
         => /\ retry.invoked >= 1
            /\ ~RaisesAt(retry.invoked)
            /\ retry.result = FuncOutcome(retry.func, retry.faults[retry.invoked]).value
            /\ \A k \in 1..(retry.invoked - 1) : RaisesAt(k)
    /\ retry.pc = "raised"
         => /\ retry.invoked = retry.max_retries
            /\ \A k \in 1..retry.max_retries : RaisesAt(k)

\* C12: every call of a function wrapped by retry_db comes to an end; the
\* function is invoked at most max_retries times, the result of the first
\* invocation that does not raise is returned at once, and when max_retries
\* invocations in a row have raised the wrapper raises the last exception.
C12_RetryTerminates == []RetryBounded /\ <>RetryDone

\* three invocations raised, the wrapper slept 1 s and 2 s, then raised
C12_Witness ==
    /\ retry.func = "raising"
    /\ retry.max_retries = MaxRetries
    /\ retry.pc = "raised"
    /\ retry.invoked = MaxRetries
    /\ retry.slept = 3

(* ---------------------------- pricing: claims -------------------------- *)
\* the call of the named function has returned
Priced(fn) == pricing.fn = fn /\ pricing.done

\* C13: for every price p >= 0 and every sale percent in 0..90,
\* get_effective_price(p, sale_percent) <= p, with equality exactly when
\* sale_percent = 0.
C13_EffectivePriceAtMost ==
    Priced("get_effective_price")
    => /\ RatLeq(pricing.price_out, pricing.price)
       /\ RatEq(pricing.price_out, pricing.price) <=> (pricing.sale_percent = 0)

\* C13 as amended: for every price p >= 0 and every sale percent in 0..90,
\* get_effective_price(p, sale_percent) <= p, with equality exactly when
\* sale_percent = 0 or p = 0.
C13_EffectivePriceAtMostOrFree ==
    Priced("get_effective_price")
    => /\ RatLeq(pricing.price_out, pricing.price)
       /\ RatEq(pricing.price_out, pricing.price)
            <=> (pricing.sale_percent = 0 \/ RatEq(pricing.price, RatOfInt(0)))

\* 9.99 at 50 % off costs 4.995
C13_Witness ==
    /\ Priced("get_effective_price")
    /\ pricing.price = Rat(999, 100)
    /\ pricing.sale_percent = 50
    /\ RatEq(pricing.price_out, Rat(4995, 1000))
    /\ RatLess(pricing.price_out, pricing.price)

\* C14: for every qty >= 0, get_bogo_paid_qty(qty, False) = qty, and
\* get_bogo_paid_qty(qty, True) is ceil(qty / 2), the least integer whose
\* double is at least qty, when qty >= 2 and qty when qty < 2.
C14_PayableQuantity ==
    Priced("get_bogo_paid_qty")
    => IF pricing.bogo /\ pricing.qty >= 2
       THEN /\ 2 * pricing.qty_out >= pricing.qty
            /\ 2 * (pricing.qty_out - 1) < pricing.qty
       ELSE pricing.qty_out = pricing.qty

\* five units on buy-one-get-one: three are paid
C14_Witness ==
    /\ Priced("get_bogo_paid_qty")
    /\ pricing.bogo
    /\ pricing.qty = 5
    /\ pricing.qty_out = 3

\* the sum, over the lines of a cart, of effective price times paid quantity
RECURSIVE SumOfLines(_)
SumOfLines(lines) ==
    IF lines = <<>> THEN RatOfInt(0)
    ELSE LET l == Head(lines)
         IN  RatAdd(RatMul(EffectivePrice(l.price, ItemGet(l, "sale_percent", 0)),
                           RatOfInt(PayableQuantity(l.qty, ItemGet(l, "bogo", FALSE)))),
                    SumOfLines(Tail(lines)))

\* the two lines of the example of spec section 4.1
ExampleLines ==
    << [price |-> Rat(10, 1), qty |-> 3, sale_percent |-> 20, bogo |-> FALSE],
       [price |-> Rat(10, 1), qty |-> 5, sale_percent |-> 0, bogo |-> TRUE] >>

\* C15: calculate_cart_totals(lines, pct) returns as subtotal the sum over
\* the lines of effective price times paid quantity, as discount amount
\* subtotal * pct / 100 and as final total subtotal - discount amount; an
\* empty cart gives (0, 0, 0) for every pct, and the lines (10.00, 20 %,
\* qty 3, no bogo) and (10.00, 0 %, qty 5, bogo) with pct 10 give
\* (54.00, 5.40, 48.60).
C15_CartTotals ==
    Priced("calculate_cart_totals")
    => LET t == pricing.totals
           pct == pricing.checkout_discount_pct
       IN  /\ RatEq(t.subtotal, SumOfLines(pricing.cart_items))
           /\ RatEq(t.discount_amount,
                    RatDiv(RatMul(t.subtotal, RatOfInt(pct)), RatOfInt(100)))
           /\ RatEq(t.final_total, RatSub(t.subtotal, t.discount_amount))
           /\ pricing.cart_items = <<>>
                => /\ RatEq(t.subtotal, RatOfInt(0))
                   /\ RatEq(t.discount_amount, RatOfInt(0))
                   /\ RatEq(t.final_total, RatOfInt(0))
           /\ (pricing.cart_items = ExampleLines /\ pct = 10)
                => /\ RatEq(t.subtotal, Rat(5400, 100))
                   /\ RatEq(t.discount_amount, Rat(540, 100))
                   /\ RatEq(t.final_total, Rat(4860, 100))

\* the example of spec section 4.1 has been computed
C15_Witness ==
    /\ Priced("calculate_cart_totals")
    /\ pricing.cart_items = ExampleLines
    /\ pricing.checkout_discount_pct = 10
    /\ RatEq(pricing.totals.final_total, Rat(4860, 100))

(* ---------------------------- live cart: claims ------------------------ *)
\* reader r has a call of get_live_cart behind it and none running
Fetched(r) == live.rd[r].pc = "idle" /\ live.rd[r].fetches >= 1

\* C16: the live cart is last-write-wins, also when the publishes and the
\* fetches of different processes interleave: the store holds, whole, the
\* snapshot of the publish whose upsert ran last, and a fetch whose read the
\* store answered returns exactly the snapshot of the most recent publish
\* completed at its read, never a mixture and never an older one.
C16_LastWriteWins ==
    /\ live.published # <<>>
         => /\ live.row # NoLiveRow
            /\ JsonLoads(live.row) = live.published[Len(live.published)]
    /\ \A r \in Readers :
         (Fetched(r) /\ ~live.rd[r].raised /\ live.rd[r].seen >= 1)
         => /\ live.rd[r].seen >= live.rd[r].start
            /\ live.rd[r].ret = live.published[live.rd[r].seen]

\* a second, different snapshot was published while the display was inside
\* get_live_cart, and the display got the second one
C16_Witness ==
    /\ Fetched("display")
    /\ ~live.rd["display"].raised
    /\ live.rd["display"].start = 1
    /\ live.rd["display"].seen = 2
    /\ live.published[1] # live.published[2]
    /\ live.published[2].items # <<>>
    /\ live.rd["display"].ret = live.published[2]

\* C17: two calls of get_live_cart with no publish between them, both
\* answered by the store, return identical results, and get_live_cart
\* changes nothing in the store.
C17_FetchIdempotent ==
    [][\A r \in Readers :
         LC_Select(r)
         => /\ live'.row = live.row
            /\ live'.published = live.published
            /\ (/\ live'.rd[r].fetches >= 2
                /\ ~live'.rd[r].raised /\ ~live'.rd[r].prev_raised
                /\ live'.rd[r].prev_seen = live'.rd[r].seen)
               => live'.rd[r].ret = live'.rd[r].prev_ret]_vars

\* the display has fetched the published cart twice in a row
C17_Witness ==
    /\ Fetched("display")
    /\ live.rd["display"].fetches = 2
    /\ ~live.rd["display"].raised /\ ~live.rd["display"].prev_raised
    /\ live.rd["display"].prev_seen = 1 /\ live.rd["display"].seen = 1
    /\ live.rd["display"].ret = live.published[1]
    /\ live.rd["display"].prev_ret = live.rd["display"].ret

\* C18: a reader of get_live_cart can tell "no cart yet" from "cart with
\* zero items", and neither result comes from any other situation: the
\* call returns None exactly when nothing had been published at its read,
\* and a cart with zero items exactly when the cart last published at its
\* read has zero items.
C18_NoCartDistinguished ==
    \A r \in Readers :
        Fetched(r)
        => /\ (live.rd[r].ret = NoneValue) <=> (live.rd[r].seen = 0)
           /\ (live.rd[r].ret # NoneValue /\ live.rd[r].ret.items = <<>>)
                <=> (live.rd[r].seen >= 1
                     /\ live.published[live.rd[r].seen].items = <<>>)

(* ---------------------------- catalogue: claims ------------------------ *)
\* a barcode column that holds no barcode
NoCode(barcode) == barcode \in {NoBarcode, ""}

C20_DeleteAllOrNothing ==
    (s1.op = "delete_item" /\ s1.pc = "idle")
    => LET id == s1.di.item_id
           pre == s1.di.pre_inventory
       IN  /\ s1.ret.ok
                => /\ id \notin DOMAIN inventory
                   /\ HistoryOf(transactions, id) = <<>>
           /\ ~s1.ret.ok
                => /\ id \in DOMAIN pre
                        => (id \in DOMAIN inventory /\ inventory[id] = pre[id])
                   /\ HistoryOf(transactions, id)
                        = HistoryOf(s1.di.pre_transactions, id)

\* C21: update_item_details leaves the quantity of every item as it was
\* and appends no transactions row, whichever columns it edits: no step of
\* the call changes a quantity, the set of items or the transactions.
C21_DetailsLeaveQuantity ==
    [][ proc'["s1"].op = "update_item_details"
        => /\ transactions' = transactions
           /\ DOMAIN inventory' = DOMAIN inventory
           /\ \A i \in DOMAIN inventory :
                 inventory'[i].quantity = inventory[i].quantity ]_vars

\* update_item_details has given a stocked item a new price, a sale and BOGO
C21_Witness ==
    /\ s1.op = "update_item_details" /\ s1.pc = "idle" /\ s1.ret.ok
    /\ s1.ud.item_id \in DOMAIN inventory
    /\ inventory[s1.ud.item_id].price = Rat(10, 1)
    /\ inventory[s1.ud.item_id].sale_percent = 50
    /\ inventory[s1.ud.item_id].bogo
    /\ inventory[s1.ud.item_id].quantity > 0

(* ---------------------------- batch order: claims ---------------------- *)
\* the delta the lines 1..k of the cart that succeeded applied to item i
RECURSIVE PrefixDelta(_, _, _, _, _)
PrefixDelta(cart, rets, type, i, k) ==
    IF k = 0 THEN 0
    ELSE PrefixDelta(cart, rets, type, i, k - 1)
         + (IF rets[k].ok /\ cart[k].id = i
            THEN (IF type = "SALE" THEN -cart[k].qty ELSE cart[k].qty)
            ELSE 0)

\* session s1 is inside the update_stock call of a line
InLine == s1.pc \in {"us_select", "us_update", "lt_insert", "lt_fallback"}

\* C24: process_batch_transaction attempts the lines of the cart one by
\* one in cart order, each exactly once and also after a line that failed:
\* line i is attempted when lines 1..i-1 have returned, and the call returns
\* when every line has. The quantity a line reads is the one the lines
\* before it left, so the quantity a line reports is the quantity before the
\* batch plus the deltas of the lines up to it that succeeded on its item.
C24_LinesInOrderOnce ==
    s1.op = "process_batch"
    => /\ s1.pb.i = Len(s1.pb.rets) + 1
       /\ s1.pb.i <= Len(s1.pb.cart) + 1
       /\ s1.pc = "idle" => Len(s1.pb.rets) = Len(s1.pb.cart)
       /\ InLine => /\ s1.pb.i <= Len(s1.pb.cart)
                    /\ s1.us.item_id = s1.pb.cart[s1.pb.i].id
                    /\ s1.us.item_name = s1.pb.cart[s1.pb.i].name
                    /\ Abs(s1.us.change) = s1.pb.cart[s1.pb.i].qty
       /\ \A k \in 1..Len(s1.pb.rets) :
             s1.pb.rets[k].ok
             => s1.pb.rets[k].qty =
                  s1.pb.pre_inventory[s1.pb.cart[k].id].quantity
                  + PrefixDelta(s1.pb.cart, s1.pb.rets, s1.pb.type, s1.pb.cart[k].id, k)

\* two SALE lines of 2 units of the same item, in stock with 5: the first
\* reports 3 and the second, which read after it, reports 1
C24_Witness ==
    /\ PbReturned
    /\ s1.pb.type = "SALE"
    /\ Len(s1.pb.cart) = 2
    /\ s1.pb.cart[1].id = s1.pb.cart[2].id
    /\ s1.pb.rets[1].ok /\ s1.pb.rets[1].qty = 3
    /\ s1.pb.rets[2].ok /\ s1.pb.rets[2].qty = 1
    /\ inventory[s1.pb.cart[1].id].quantity = 1

(* ---------------------------- log warnings: claims --------------------- *)
\* C25: when the log append of a line of a batch has failed, the result
\* process_batch_transaction returns carries the warning of that line, also
\* when every line changed its stock.
C25_BatchCarriesLogWarning ==
    (PbReturned /\ \E k \in 1..Len(s1.pb.rets) : s1.pb.rets[k].warn)
    => s1.ret.warn

\* log_transaction has returned in session s1 from its fallback insert
FallbackLogged ==
    /\ s1.pc \in {"idle", "pb_loop"}
    /\ s1.log_ret = "LoggedFallback"

\* C26: when the first insert of log_transaction fails and the fallback
\* insert succeeds, log_transaction reports success and the row it stored
\* is the row of the call without receipt_id and without payment_method;
\* update_stock then returns success without the warning.
C26_FallbackIsSuccess ==
    FallbackLogged
    => /\ LogSuccess(s1.log_ret)
       /\ transactions # <<>>
       /\ LET row == transactions[Len(transactions)] IN
             /\ row.receipt_id = NoReceipt
             /\ row.payment_method = NoPayment
             /\ row.item_id = s1.data.item_id
             /\ row.type = s1.data.type
             /\ row.quantity = s1.data.quantity
       /\ s1.op # "add_item"
            => /\ Len(transactions) = s1.us.pre_len + 1
               /\ s1.us_ret.ok
               /\ s1.us_ret.kind = "StockUpdated"
               /\ ~s1.us_ret.warn

\* a card sale with a receipt id was logged by the fallback insert and the
\* batch returned success with that receipt id, which no row carries
C26_Witness ==
    /\ PbReturned
    /\ FallbackLogged
    /\ s1.ret.ok
    /\ s1.data.receipt_id = s1.ret.receipt
    /\ s1.data.payment_method = "CARD"
    /\ \A k \in 1..Len(transactions) : transactions[k].receipt_id # s1.ret.receipt

(* ---------------------------- conservation: claims --------------------- *)
\* the quantity the rows of item i add up to: initial stock plus restocks
\* minus sales
RECURSIVE RowsBalance(_, _)
RowsBalance(rows, i) ==
    IF rows = <<>> THEN 0
    ELSE (IF Head(rows).item_id # i THEN 0
          ELSE IF Head(rows).type \in {"INITIAL_STOCK", "RESTOCK"}
               THEN Head(rows).quantity
          ELSE IF Head(rows).type = "SALE" THEN -Head(rows).quantity
          ELSE 0)
         + RowsBalance(Tail(rows), i)

\* every item holds the quantity its transactions rows add up to
Conserved ==
    \A i \in DOMAIN inventory : inventory[i].quantity = RowsBalance(transactions, i)

\* no call is between the two store writes it makes one after the other
\* (quantity then log row, transactions then item)
BetweenWrites ==
    \E p \in Sessions : proc[p].pc \in {"lt_insert", "lt_fallback", "di_inventory"}

\* C28: when the calls on an item run one at a time and no log append has
\* failed, the quantity of every item is the quantity of its INITIAL_STOCK
\* row plus the quantities of its RESTOCK rows minus the quantities of its
\* SALE rows, in every state in which no call is between its two writes.
C28_LedgerConservation ==
    (~BetweenWrites /\ logFailures = 0) => Conserved

(* ---------------------------- delete_item races: claims ---------------- *)
\* C30: in every reachable state every transactions row refers to an item
\* that is in the inventory, also when delete_item interleaves with an
\* update_stock call on the same item and when delete_item fails between
\* its two deletes.
C30_NoOrphanHistory ==
    \A k \in 1..Len(transactions) : transactions[k].item_id \in DOMAIN inventory

(* ---------------------------- POS page: claims ------------------------- *)
\* C22: a cart line is a snapshot. A line that stays in the cart keeps the
\* price, sale_percent and bogo it was added with, also in the step that
\* adds more units of the item to it; a step that edits the item store
\* changes neither the cart nor the totals computed from it.
C22_CartLineIsSnapshot ==
    [][ /\ \A k \in 1..Len(pos.cart), j \in 1..Len(pos'.cart) :
             (pos'.cart[j].id = pos.cart[k].id /\ pos'.cart[j].note = pos.cart[k].note)
             => /\ pos'.cart[j].price = pos.cart[k].price
                /\ pos'.cart[j].sale_percent = pos.cart[k].sale_percent
                /\ pos'.cart[j].bogo = pos.cart[k].bogo
        /\ inventory' # inventory
             => /\ pos'.cart = pos.cart
                /\ CartTotals(pos'.cart, pos'.checkout_discount)
                     = CartTotals(pos.cart, pos.checkout_discount) ]_vars

\* 2 units were added at 9.99, the item was then edited to 10.00 with a 50%
\* sale and BOGO, and 2 more units were added to the line: 4 units at 9.99
C22_Witness ==
    /\ pos.op = "add" /\ pos.found
    /\ Len(pos.cart) = 1
    /\ pos.cart[1].qty = 4
    /\ pos.cart[1].price = ListPrice
    /\ pos.cart[1].sale_percent = 0 /\ ~pos.cart[1].bogo
    /\ pos.item_data.price = Rat(10, 1)
    /\ pos.item_data.sale_percent = 50 /\ pos.item_data.bogo
    /\ inventory[pos.cart[1].id].price = Rat(10, 1)
    /\ pos.sync_data.subtotal = Rat(3996, 100)
    /\ pos.sync_data.items = pos.cart

\* the handler of the checkout has finished and no other has run since
CheckoutHandled(op) == pos.op = op /\ calls["s1"] = pos.handled

\* C23: after a checkout whose process_batch_transaction returned success,
\* and after Empty Cart (Cancel), the cart of the session is empty and the
\* snapshot sync_cart published is the empty cart with subtotal, discount
\* and total 0; when the store executed the upsert, that is the snapshot a
\* reader finds in the store.
C23_CartClearedAndPublished ==
    (CheckoutHandled("pay_ok") \/ CheckoutHandled("cancel"))
    => /\ pos.cart = <<>>
       /\ pos.sync_data = EmptyLiveCart
       /\ pos.sync_ret # "none"
       /\ pos.sync_ret = "ok" => LiveCartOf(live.row) = EmptyLiveCart

\* a cart with a 10% checkout discount was paid: the discount is still 10
\* when sync_cart runs, and the published totals are 0
C23_Witness ==
    /\ CheckoutHandled("pay_ok")
    /\ pos.pre_cart # <<>>
    /\ pos.pre_discount = 10 /\ pos.checkout_discount = 10 /\ pos.reset_discount
    /\ pos.sync_ret = "ok"
    /\ live.row = JsonDumps(EmptyLiveCart)
    /\ proc["s1"].ret.ok

\* C29: a checkout whose process_batch_transaction returned failure leaves
\* the cart and the checkout discount of the session as they were, with the
\* lines whose stock was adjusted still in the cart, and publishes nothing;
\* pressing pay again submits every line of that cart again.
C29_FailedCheckoutKeepsCart ==
    pos.op = "pay_failed"
    => /\ pos.cart = pos.pre_cart
       /\ pos.checkout_discount = pos.pre_discount
       /\ pos.sync_ret = "none"
       /\ proc["s1"].op = "process_batch" /\ proc["s1"].pb.cart = pos.cart
       /\ calls["s1"] = pos.handled => ~proc["s1"].ret.ok

\* the first checkout sold 2 units of A and failed on B; the cashier pressed
\* pay again and the second checkout has sold 2 more units of A
C29_Witness ==
    /\ pos.op = "pay_failed"
    /\ calls["s1"] = 2 /\ pos.handled = 1
    /\ Len(pos.cart) = 2
    /\ pos.cart[1].name = "A" /\ pos.cart[1].qty = 2
    /\ Len(proc["s1"].pb.rets) >= 1
    /\ proc["s1"].pb.rets[1].ok /\ proc["s1"].pb.rets[1].qty = 1
    /\ proc["s1"].pb.pre_inventory[1].quantity = 3
    /\ inventory[1].quantity = 1

(* ---------------------------- live cart convergence: claims ------------ *)
\* the snapshot kept with the session state is the one sync_cart computes
CartDataCurrent == pos.cart_data = SyncCartData(pos.cart, pos.checkout_discount)

\* the snapshot the display holds is the cart of the cashier with its totals
Converged == pos.display = SyncCartData(pos.cart, pos.checkout_discount)

====
